---- MODULE Spec2Model ----
(***************************************************************************)
(* Model of the EEVEE-Next ray-tracing module                              *)
(* (source/blender/draw/engines/eevee_next/eevee_raytrace.cc):             *)
(* RayTraceModule::init, RayTraceModule::render and RayTraceModule::trace, *)
(* the per-closure persistent denoise buffers, the pooled transient        *)
(* textures and the sequence of passes submitted in one frame.             *)
(***************************************************************************)
EXTENDS Integers, Sequences, FiniteSets, TLC

(***************************************************************************)
(* Bounds of the model.                                                    *)
(***************************************************************************)
\* Number of distinct render extents the film can have.
MaxExtent == 2

(***************************************************************************)
(* Program constants.                                                      *)
(***************************************************************************)
RAYTRACE_GROUP_SIZE == 8

Closures == {"diffuse", "reflection", "refraction"}
CLOSURE_NONE == {}

Stages == {"spatial", "temporal", "bilateral"}

\* The render extents: one tile wide (1x1, which is also the dummy extent),
\* two tiles wide, ...
Extents == {<<RAYTRACE_GROUP_SIZE * (k - 1) + 1, 1>> : k \in 1..MaxExtent}
dummy_extent == <<1, 1>>

\* Two distinct main-view projection matrices; 0 stands for the matrix a
\* DenoiseBuffer is constructed with.
Views == {1, 2}

\* RaytraceEEVEE: the options read by render() and trace().
MaxRoughness == {5, 10}     \* screen_trace_max_roughness in tenths: 0.5 and 1.0
ResolutionScales == {2}
Options == [use_denoise : BOOLEAN, denoise_stages : SUBSET Stages,
            resolution_scale : ResolutionScales,
            screen_trace_max_roughness : MaxRoughness]

(***************************************************************************)
(* Textures.  A texture object has an identity (id), an extent and a       *)
(* content tag.  NoTex is the null GPUTexture pointer.                     *)
(***************************************************************************)
NoTex == [id |-> 0, extent |-> <<0, 0>>, data |-> "none"]

BufFields == {"radiance_history_tx", "variance_history_tx", "tilemask_history_tx",
              "denoised_spatial_tx", "denoised_temporal_tx", "denoised_bilateral_tx"}
HistoryFields == {"radiance_history_tx", "variance_history_tx", "tilemask_history_tx"}
PoolFields == {"ray_data_tx_", "ray_time_tx_", "ray_radiance_tx_", "hit_variance_tx_",
               "hit_depth_tx_", "denoise_variance_tx_", "horizon_occlusion_tx_",
               "horizon_radiance_tx_", "downsampled_in_radiance_tx_",
               "downsampled_in_normal_tx_"}
TileFields == {"tile_raytrace_denoise_tx_", "tile_raytrace_tracing_tx_",
               "tile_horizon_denoise_tx_", "tile_horizon_tracing_tx_"}
Slots == (Closures \X BufFields) \cup ({"module"} \X (PoolFields \cup TileFields))

\* math::divide_ceil on one component and on an int2.
divide_ceil_i(a, b) == (a + b - 1) \div b
divide_ceil(v, d) == <<divide_ceil_i(v[1], d[1]), divide_ceil_i(v[2], d[2])>>

\* The ids of the texture objects that exist.
LiveIds(t) == {t[s].id : s \in Slots} \ {0}
\* The id given to a newly created texture object: one that no existing
\* object has.
NewId(t) ==
  LET live == LiveIds(t)
  IN  CHOOSE i \in 1..(Cardinality(live) + 1) :
        i \notin live /\ \A j \in 1..(i - 1) : j \in live

(***************************************************************************)
(* State.                                                                  *)
(***************************************************************************)
VARIABLES
  pc,                   \* position of the frame: init(), render() and its trace() calls
  ray_tracing_options_, \* RayTraceModule::ray_tracing_options_
  tracing_method_,      \* RayTraceModule::tracing_method_
  frame,                \* arguments and locals of the running render()
  tex,                  \* every texture slot: rt_buffer's and the module's
  valid_history,        \* DenoiseBuffer::valid_history, per closure
  history_persmat,      \* DenoiseBuffer::history_persmat, per closure
  result,               \* RayTraceResult: the handle trace() returned, per closure
  flags,                \* the stage flags computed by this frame's trace() of a closure
  prev,                 \* what the previous frame's trace() of a closure ran
  prev_extent,          \* the render extent of the previous frame
  log,                  \* what the running render() did, in order
  call_begin,           \* length of log when the last trace() call began
  carried,              \* the object the previous frame's temporal pass wrote, per closure
  calls                 \* the raytrace_closure argument of each trace() call of the frame

vars == <<pc, ray_tracing_options_, tracing_method_, frame, tex, valid_history, history_persmat,
          result, flags, prev, prev_extent, log, call_begin, carried, calls>>

NoResult == [result_ |-> "none", history_ |-> "none"]
NoFlags == [called |-> FALSE, active |-> FALSE, use_denoise |-> FALSE,
            use_spatial_denoise |-> FALSE, use_temporal_denoise |-> FALSE,
            use_bilateral_denoise |-> FALSE, valid_on_entry |-> FALSE,
            radiance_on_entry |-> <<0, 0>>]
NoFrame == [active_closures |-> CLOSURE_NONE, extent |-> <<0, 0>>, main_persmat |-> 0,
            use_horizon_scan |-> FALSE, do_refraction_tracing |-> FALSE]
TracingMethods == {"RAYTRACE_EEVEE_METHOD_NONE", "RAYTRACE_EEVEE_METHOD_SCREEN"}

Init ==
  /\ pc = "idle"
  /\ ray_tracing_options_ = [use_denoise |-> FALSE, denoise_stages |-> {},
                             resolution_scale |-> 2, screen_trace_max_roughness |-> 5]
  /\ tracing_method_ = "RAYTRACE_EEVEE_METHOD_SCREEN"
  /\ frame = NoFrame
  /\ tex = [s \in Slots |-> NoTex]
  /\ valid_history = [c \in Closures |-> FALSE]
  /\ history_persmat = [c \in Closures |-> 0]
  /\ result = [c \in Closures |-> NoResult]
  /\ flags = [c \in Closures |-> NoFlags]
  /\ prev = [c \in Closures |-> "none"]
  /\ prev_extent = <<0, 0>>
  /\ log = <<>>
  /\ call_begin = 0
  /\ carried = [c \in Closures |-> 0]
  /\ calls = <<>>

(***************************************************************************)
(* The frame-local machine state threaded through render() and trace():    *)
(* m.tex is every texture slot, m.ptr the module's GPUTexture pointer      *)
(* members that passes bind by reference, m.log the ordered record of what *)
(* was done.                                                               *)
(***************************************************************************)
PtrFields == {"screen_radiance_tx_", "denoised_spatial_tx_", "radiance_history_tx_",
              "variance_history_tx_", "tilemask_history_tx_", "denoised_temporal_tx_",
              "denoised_bilateral_tx_", "horizon_scan_output_tx_"}
NoPtr == [p \in PtrFields |-> 0]
NoBinds == [none |-> 0]

Event(op, owner, name, tx, binds) ==
  [op |-> op, owner |-> owner, name |-> name, tx |-> tx, binds |-> binds,
   data |-> NoBinds]

\* TextureFromPool::acquire: a texture object of the requested extent whose
\* content is undefined.
Acquire(m, s, extent) ==
  LET t == [id |-> NewId(m.tex), extent |-> extent, data |-> "undefined"]
  IN  [m EXCEPT !.tex[s] = t,
                !.log = Append(@, Event("acquire", s[1], s[2], t, NoBinds))]

\* TextureFromPool::release: the slot gives its texture object back; releasing
\* an empty slot does nothing.
Release(m, s) ==
  IF m.tex[s].id = 0 THEN m
  ELSE [m EXCEPT !.tex[s] = NoTex,
                 !.log = Append(@, Event("release", s[1], s[2], m.tex[s], NoBinds))]

\* Texture::free: the texture object is destroyed.
Free(m, s) ==
  [m EXCEPT !.tex[s] = NoTex,
            !.log = Append(@, Event("free", s[1], s[2], m.tex[s], NoBinds))]

\* Texture::ensure_2d / ensure_2d_array return true when the texture had to
\* be (re)created: it did not exist or its size differs from the request.
EnsureRecreates(m, s, extent) ==
  m.tex[s].id = 0 \/ m.tex[s].extent # extent

Ensure(m, s, extent) ==
  IF EnsureRecreates(m, s, extent)
    THEN LET freed == [m.tex EXCEPT ![s] = NoTex]
             t == [id |-> NewId(freed), extent |-> extent, data |-> "undefined"]
         IN  [m EXCEPT !.tex[s] = t,
                       !.log = Append(@, Event("create", s[1], s[2], t, NoBinds))]
    ELSE m

\* Texture::clear.
Clear(m, s) ==
  [m EXCEPT !.tex[s].data = "zero",
            !.log = Append(@, Event("clear", s[1], s[2], m.tex[s], NoBinds))]

\* TextureFromPool::swap: the two wrappers exchange their texture objects.
Swap(m, a, b) ==
  [m EXCEPT !.tex[a] = m.tex[b], !.tex[b] = m.tex[a],
            !.log = Append(@, Event("swap", a[1], a[2], m.tex[a], [with |-> m.tex[b].id]))]

\* GPU_texture_copy(dst, src): dst receives the content of src.
TextureCopy(m, dst, src) ==
  [m EXCEPT !.tex[dst].data = m.tex[src].data,
            !.log = Append(@, Event("copy", dst[1], dst[2], m.tex[dst], [from |-> m.tex[src].id]))]

\* A GPUTexture pointer member is set to the object a wrapper holds now.
SetPtr(m, p, s) == [m EXCEPT !.ptr[p] = m.tex[s].id]

\* The texture object with the given id becomes written.
WriteOne(t, id) ==
  IF id # 0 /\ \E s \in Slots : t[s].id = id
    THEN [t EXCEPT ![CHOOSE s \in Slots : t[s].id = id].data = "written"]
    ELSE t
RECURSIVE Written(_, _)
Written(t, ids) ==
  IF ids = {} THEN t
  ELSE LET i == CHOOSE i \in ids : TRUE
       IN  Written(WriteOne(t, i), ids \ {i})

\* Manager::submit: the pass runs with the texture objects its bindings refer
\* to at this moment; the objects bound as its outputs are written.
DataOf(t, id) ==
  IF \E s \in Slots : t[s].id = id /\ id # 0
    THEN t[CHOOSE s \in Slots : t[s].id = id].data
    ELSE IF id = 0 THEN "none" ELSE "external"
Submit(m, owner, pass, binds, outs) ==
  [m EXCEPT !.tex = Written(m.tex, {binds[b] : b \in outs}),
            !.log = Append(@, [op |-> "submit", owner |-> owner, name |-> pass,
                               tx |-> NoTex, binds |-> binds, outs |-> outs,
                               data |-> [b \in DOMAIN binds |-> DataOf(m.tex, binds[b])]])]

(***************************************************************************)
(* RayTraceModule::sync: what each pass issues after its dispatch and how  *)
(* it accesses its resources.  A barrier covers image access, storage      *)
(* access or texture fetch.                                                *)
(***************************************************************************)
PassBarrier_generate_without_fetch(pass) ==
  CASE pass = "tile_classify_ps_" -> {"image", "storage"}
    [] pass = "tile_compact_ps_" -> {"storage"}
    [] pass = "generate_ray_ps" -> {"storage", "image"}
    [] OTHER -> {"image"}
PassBarrier(pass) ==
  CASE pass = "tile_classify_ps_" -> {"image", "storage"}
    [] pass = "tile_compact_ps_" -> {"storage"}
    [] pass = "generate_ray_ps" -> {"storage", "fetch", "image"}
    [] pass \in {"trace_ray_ps", "trace_fallback_ps_", "denoise_spatial_ps",
                 "denoise_temporal_ps_", "denoise_bilateral_ps", "horizon_setup_ps_",
                 "horizon_scan_ps", "horizon_denoise_ps_"} -> {"image"}
    [] OTHER -> {}
\* Bindings made with bind_texture are read by texture fetch, those made with
\* bind_image by image access.
FetchBindings == {"screen_radiance_tx", "radiance_history_tx", "variance_history_tx",
                  "tilemask_history_tx", "in_radiance_tx", "screen_normal_tx"}
AccessKind(b) == IF b \in FetchBindings THEN "fetch" ELSE "image"
\* Storage buffers: the compaction writes the tile lists and the dispatch
\* records; later passes read their tile list and are dispatched from their
\* dispatch record.
TileBuffers == {"raytrace_tracing", "raytrace_denoise", "horizon_tracing", "horizon_denoise"}
BufWrites(pass) == IF pass = "tile_compact_ps_" THEN TileBuffers ELSE {}
BufReads(pass) ==
  CASE pass \in {"generate_ray_ps", "trace_ray_ps", "trace_fallback_ps_"} -> {"raytrace_tracing"}
    [] pass \in {"denoise_spatial_ps", "denoise_temporal_ps_", "denoise_bilateral_ps"} ->
         {"raytrace_denoise"}
    [] pass = "horizon_scan_ps" -> {"horizon_tracing"}
    [] pass = "horizon_denoise_ps_" -> {"horizon_denoise"}
    [] OTHER -> {}

(***************************************************************************)
(* RayTraceModule::trace, block by block.  The machine state m carries,    *)
(* besides tex, ptr and log, the fields of the call's closure: result (the *)
(* handle under construction), valid_history and history_persmat.          *)
(***************************************************************************)
Slot(c, f) == <<c, f>>
Mod(f) == <<"module", f>>

closure_index(c) ==
  IF c = "diffuse" THEN 0 ELSE IF c = "reflection" THEN 1 ELSE 2

\* Stage gating.
use_denoise(options) == options.use_denoise
use_spatial_denoise(options) ==
  "spatial" \in options.denoise_stages /\ use_denoise(options)
use_temporal_denoise_ungated(options) ==
  "temporal" \in options.denoise_stages /\ use_denoise(options)
use_temporal_denoise(options) ==
  "temporal" \in options.denoise_stages /\ use_spatial_denoise(options)
use_bilateral_denoise(options) ==
  "bilateral" \in options.denoise_stages /\ use_temporal_denoise(options)

\* The resolution the rays are traced at.
power_of_2_max_i(n) ==
  IF n <= 1 THEN n
  ELSE CHOOSE p \in n..(2 * n) : /\ \E k \in 0..n : p = 2 ^ k
                                 /\ \A q \in n..(p - 1) : \A k \in 0..n : q # 2 ^ k
max_ii(a, b) == IF a > b THEN a ELSE b
resolution_scale(options) == max_ii(1, power_of_2_max_i(options.resolution_scale))
tracing_res(options, extent) ==
  divide_ceil(extent, <<resolution_scale(options), resolution_scale(options)>>)

\* Early out of an inactive closure: one dummy resource, the persistent
\* buffers are released.
PlaceholderExtent == dummy_extent
TraceEarlyOut_keeps_variance(m, c) ==
  LET m1 == Acquire(m, Slot(c, "denoised_spatial_tx"), PlaceholderExtent)
      m2 == Free(m1, Slot(c, "radiance_history_tx"))
      m4 == Free(m2, Slot(c, "tilemask_history_tx"))
  IN  [m4 EXCEPT !.result = [result_ |-> "denoised_spatial_tx", history_ |-> "none"]]
TraceEarlyOut_history_handle(m, c) ==
  LET m1 == Acquire(m, Slot(c, "denoised_spatial_tx"), PlaceholderExtent)
      m2 == Free(m1, Slot(c, "radiance_history_tx"))
      m3 == Free(m2, Slot(c, "variance_history_tx"))
      m4 == Free(m3, Slot(c, "tilemask_history_tx"))
  IN  [m4 EXCEPT !.result = [result_ |-> "denoised_spatial_tx",
                             history_ |-> "radiance_history_tx"]]
TraceEarlyOut_frees_diffuse(m, c) ==
  LET m1 == Acquire(m, Slot(c, "denoised_spatial_tx"), PlaceholderExtent)
      m2 == Free(m1, Slot("diffuse", "radiance_history_tx"))
      m3 == Free(m2, Slot("diffuse", "variance_history_tx"))
      m4 == Free(m3, Slot("diffuse", "tilemask_history_tx"))
  IN  [m4 EXCEPT !.result = [result_ |-> "denoised_spatial_tx", history_ |-> "none"]]
TraceEarlyOut(m, c) ==
  LET m1 == Acquire(m, Slot(c, "denoised_spatial_tx"), PlaceholderExtent)
      m2 == Free(m1, Slot(c, "radiance_history_tx"))
      m3 == Free(m2, Slot(c, "variance_history_tx"))
      m4 == Free(m3, Slot(c, "tilemask_history_tx"))
  IN  [m4 EXCEPT !.result = [result_ |-> "denoised_spatial_tx", history_ |-> "none"]]

\* Uniform data of the call, then the tile compaction.
PushUpdate_never_skips(m, c, options) ==
  [m EXCEPT !.log = Append(@, Event("push_update", c, "uniform_data", NoTex,
                                    [closure_index |-> closure_index(c),
                                     history_persmat |-> m.history_persmat,
                                     skip_denoise |-> FALSE]))]
PushUpdate(m, c, options) ==
  [m EXCEPT !.log = Append(@, Event("push_update", c, "uniform_data", NoTex,
                                    [closure_index |-> closure_index(c),
                                     history_persmat |-> m.history_persmat,
                                     skip_denoise |-> ~use_spatial_denoise(options)]))]
ClearToZero(m, buf) ==
  [m EXCEPT !.log = Append(@, Event("clear_to_zero", "module", buf, NoTex, NoBinds))]
TileMaskBinds(m) ==
  [tile_raytrace_denoise_img |-> m.tex[Mod("tile_raytrace_denoise_tx_")].id,
   tile_raytrace_tracing_img |-> m.tex[Mod("tile_raytrace_tracing_tx_")].id,
   tile_horizon_denoise_img |-> m.tex[Mod("tile_horizon_denoise_tx_")].id,
   tile_horizon_tracing_img |-> m.tex[Mod("tile_horizon_tracing_tx_")].id]
SubmitCompact(m, c) == Submit(m, c, "tile_compact_ps_", TileMaskBinds(m), {})
TraceRaySetup_compacts_once(m, c, options) ==
  LET m1 == PushUpdate(m, c, options)
      m2 == ClearToZero(m1, "raytrace_tracing_dispatch_buf_")
      m3 == ClearToZero(m2, "raytrace_denoise_dispatch_buf_")
      m4 == ClearToZero(m3, "horizon_tracing_dispatch_buf_")
      m5 == ClearToZero(m4, "horizon_denoise_dispatch_buf_")
  IN  IF \E i \in DOMAIN m5.log : m5.log[i].op = "submit" /\ m5.log[i].name = "tile_compact_ps_"
        THEN m5 ELSE SubmitCompact(m5, c)
TraceRaySetup_no_reset(m, c, options) == SubmitCompact(PushUpdate(m, c, options), c)
TraceRaySetup(m, c, options) ==
  LET m1 == PushUpdate(m, c, options)
      m2 == ClearToZero(m1, "raytrace_tracing_dispatch_buf_")
      m3 == ClearToZero(m2, "raytrace_denoise_dispatch_buf_")
      m4 == ClearToZero(m3, "horizon_tracing_dispatch_buf_")
      m5 == ClearToZero(m4, "horizon_denoise_dispatch_buf_")
  IN  SubmitCompact(m5, c)

\* Tracing rays.
RayBinds(m) ==
  [ray_data_img |-> m.tex[Mod("ray_data_tx_")].id,
   ray_time_img |-> m.tex[Mod("ray_time_tx_")].id,
   ray_radiance_img |-> m.tex[Mod("ray_radiance_tx_")].id,
   screen_radiance_tx |-> m.ptr["screen_radiance_tx_"]]
\* The fallback pass binds the ray images only; the screen-trace pass also
\* fetches the screen radiance.
FallbackBinds(m) ==
  [ray_data_img |-> m.tex[Mod("ray_data_tx_")].id,
   ray_time_img |-> m.tex[Mod("ray_time_tx_")].id,
   ray_radiance_img |-> m.tex[Mod("ray_radiance_tx_")].id]
trace_ray_ps(force_no_tracing) ==
  IF force_no_tracing THEN "trace_fallback_ps_" ELSE "trace_ray_ps"
SubmitGenerate(m, c) ==
  Submit(m, c, "generate_ray_ps", [out_ray_data_img |-> m.tex[Mod("ray_data_tx_")].id],
         {"out_ray_data_img"})
SubmitTrace(m, c, force_no_tracing) ==
  Submit(m, c, trace_ray_ps(force_no_tracing),
         IF force_no_tracing THEN FallbackBinds(m) ELSE RayBinds(m),
         {"ray_time_img", "ray_radiance_img"})
TraceRays_trace_first(m, c, res, force_no_tracing) ==
  LET m1 == Acquire(m, Mod("ray_data_tx_"), res)
      m2 == Acquire(m1, Mod("ray_time_tx_"), res)
      m3 == Acquire(m2, Mod("ray_radiance_tx_"), res)
      m4 == SubmitTrace(m3, c, force_no_tracing)
  IN  SubmitGenerate(m4, c)
TraceRays(m, c, res, force_no_tracing) ==
  LET m1 == Acquire(m, Mod("ray_data_tx_"), res)
      m2 == Acquire(m1, Mod("ray_time_tx_"), res)
      m3 == Acquire(m2, Mod("ray_radiance_tx_"), res)
      m4 == SubmitGenerate(m3, c)
  IN  SubmitTrace(m4, c, force_no_tracing)

\* Spatial denoise pass is required to resolve at least one ray per pixel.
SpatialBinds(m) ==
  [ray_data_img |-> m.tex[Mod("ray_data_tx_")].id,
   ray_time_img |-> m.tex[Mod("ray_time_tx_")].id,
   ray_radiance_img |-> m.tex[Mod("ray_radiance_tx_")].id,
   out_radiance_img |-> m.ptr["denoised_spatial_tx_"],
   out_variance_img |-> m.tex[Mod("hit_variance_tx_")].id,
   out_hit_depth_img |-> m.tex[Mod("hit_depth_tx_")].id,
   tile_mask_img |-> m.tex[Mod("tile_raytrace_denoise_tx_")].id]
SubmitSpatial(m, c) ==
  Submit(m, c, "denoise_spatial_ps", SpatialBinds(m),
         {"out_radiance_img", "out_variance_img", "out_hit_depth_img"})
TraceSpatial_keeps_rays(m, c, extent, temporal) ==
  LET scratch == IF temporal THEN extent ELSE dummy_extent
      m1 == Acquire(m, Slot(c, "denoised_spatial_tx"), extent)
      m2 == Acquire(m1, Mod("hit_variance_tx_"), scratch)
      m3 == Acquire(m2, Mod("hit_depth_tx_"), scratch)
      m4 == SetPtr(m3, "denoised_spatial_tx_", Slot(c, "denoised_spatial_tx"))
      m5 == SubmitSpatial(m4, c)
  IN  [m5 EXCEPT !.result = [result_ |-> "denoised_spatial_tx", history_ |-> "none"]]
TraceSpatial(m, c, extent, temporal) ==
  LET scratch == IF temporal THEN extent ELSE dummy_extent
      m1 == Acquire(m, Slot(c, "denoised_spatial_tx"), extent)
      m2 == Acquire(m1, Mod("hit_variance_tx_"), scratch)
      m3 == Acquire(m2, Mod("hit_depth_tx_"), scratch)
      m4 == SetPtr(m3, "denoised_spatial_tx_", Slot(c, "denoised_spatial_tx"))
      m5 == SubmitSpatial(m4, c)
      m6 == [m5 EXCEPT !.result = [result_ |-> "denoised_spatial_tx", history_ |-> "none"]]
      m7 == Release(m6, Mod("ray_data_tx_"))
      m8 == Release(m7, Mod("ray_time_tx_"))
  IN  Release(m8, Mod("ray_radiance_tx_"))

\* Temporal denoise.  If the radiance history had to be (re)created, or the
\* history is not valid, the tile-mask history is cleared: do not try to use
\* history.
HistoryReset_flag_only(recreated, valid) == valid = FALSE
HistoryReset_recreated_only(recreated, valid) == recreated
HistoryReset(recreated, valid) == recreated \/ valid = FALSE
TemporalBinds(m) ==
  [radiance_history_tx |-> m.ptr["radiance_history_tx_"],
   variance_history_tx |-> m.ptr["variance_history_tx_"],
   tilemask_history_tx |-> m.ptr["tilemask_history_tx_"],
   hit_depth_img |-> m.tex[Mod("hit_depth_tx_")].id,
   in_radiance_img |-> m.ptr["denoised_spatial_tx_"],
   out_radiance_img |-> m.ptr["denoised_temporal_tx_"],
   in_variance_img |-> m.tex[Mod("hit_variance_tx_")].id,
   out_variance_img |-> m.tex[Mod("denoise_variance_tx_")].id]
EnsureTilemaskHistory(m, c) ==
  Ensure(m, Slot(c, "tilemask_history_tx"), m.tex[Mod("tile_raytrace_denoise_tx_")].extent)
EnsureRadianceHistory_no_clear(m, c, extent) ==
  Ensure(m, Slot(c, "radiance_history_tx"), extent)
EnsureRadianceHistory(m, c, extent) ==
  IF HistoryReset(EnsureRecreates(m, Slot(c, "radiance_history_tx"), extent), m.valid_history)
    THEN Clear(Ensure(m, Slot(c, "radiance_history_tx"), extent),
               Slot(c, "tilemask_history_tx"))
    ELSE Ensure(m, Slot(c, "radiance_history_tx"), extent)
SubmitTemporal(m, c) ==
  Submit(m, c, "denoise_temporal_ps_", TemporalBinds(m),
         {"out_radiance_img", "out_variance_img"})
TraceTemporal(m, c, extent, bilateral, main_persmat) ==
  LET variance_extent == IF bilateral THEN extent ELSE dummy_extent
      m1 == Acquire(m, Slot(c, "denoised_temporal_tx"), extent)
      m2 == Acquire(m1, Mod("denoise_variance_tx_"), variance_extent)
      m3 == Ensure(m2, Slot(c, "variance_history_tx"), variance_extent)
      m4 == EnsureTilemaskHistory(m3, c)
      m6 == EnsureRadianceHistory(m4, c, extent)
      m7 == SetPtr(m6, "radiance_history_tx_", Slot(c, "radiance_history_tx"))
      m8 == SetPtr(m7, "variance_history_tx_", Slot(c, "variance_history_tx"))
      m9 == SetPtr(m8, "tilemask_history_tx_", Slot(c, "tilemask_history_tx"))
      m10 == SetPtr(m9, "denoised_temporal_tx_", Slot(c, "denoised_temporal_tx"))
      m11 == SubmitTemporal(m10, c)
      \* Save view-projection matrix for next reprojection.
      m12 == [m11 EXCEPT !.history_persmat = main_persmat,
                         !.result = [result_ |-> "denoised_temporal_tx",
                                     history_ |-> "radiance_history_tx"]]
      \* Not referenced by result anymore.
      m13 == Release(m12, Slot(c, "denoised_spatial_tx"))
  IN  TextureCopy(m13, Slot(c, "tilemask_history_tx"), Mod("tile_raytrace_denoise_tx_"))

\* Only use history buffer for the next frame if temporal denoise was used by
\* the current one.
TraceValidHistory_set_only(m, temporal) ==
  IF temporal THEN [m EXCEPT !.valid_history = TRUE] ELSE m
TraceValidHistory(m, temporal) == [m EXCEPT !.valid_history = temporal]

TraceReleaseHit_keeps_depth(m) == Release(m, Mod("hit_variance_tx_"))
TraceReleaseHit(m) ==
  Release(Release(m, Mod("hit_variance_tx_")), Mod("hit_depth_tx_"))

\* Bilateral denoise; radiance and variance are swapped with history after
\* last use.
BilateralBinds(m) ==
  [in_radiance_img |-> m.ptr["denoised_temporal_tx_"],
   out_radiance_img |-> m.ptr["denoised_bilateral_tx_"],
   in_variance_img |-> m.tex[Mod("denoise_variance_tx_")].id,
   tile_mask_img |-> m.tex[Mod("tile_raytrace_denoise_tx_")].id]
SubmitBilateral(m, c) ==
  Submit(m, c, "denoise_bilateral_ps", BilateralBinds(m), {"out_radiance_img"})
TraceBilateral_no_variance_swap(m, c, extent) ==
  LET m1 == Acquire(m, Slot(c, "denoised_bilateral_tx"), extent)
      m2 == SetPtr(m1, "denoised_bilateral_tx_", Slot(c, "denoised_bilateral_tx"))
      m3 == SubmitBilateral(m2, c)
      m4 == Swap(m3, Slot(c, "denoised_temporal_tx"), Slot(c, "radiance_history_tx"))
      m6 == [m4 EXCEPT !.result = [result_ |-> "denoised_bilateral_tx", history_ |-> "none"]]
  IN  Release(m6, Slot(c, "denoised_temporal_tx"))
TraceBilateral_releases_current(m, c, extent) ==
  LET m1 == Acquire(m, Slot(c, "denoised_bilateral_tx"), extent)
      m2 == SetPtr(m1, "denoised_bilateral_tx_", Slot(c, "denoised_bilateral_tx"))
      m3 == SubmitBilateral(m2, c)
      m5 == Swap(m3, Mod("denoise_variance_tx_"), Slot(c, "variance_history_tx"))
      m6 == [m5 EXCEPT !.result = [result_ |-> "denoised_bilateral_tx", history_ |-> "none"]]
  IN  Release(m6, Slot(c, "denoised_temporal_tx"))
TraceBilateral(m, c, extent) ==
  LET m1 == Acquire(m, Slot(c, "denoised_bilateral_tx"), extent)
      m2 == SetPtr(m1, "denoised_bilateral_tx_", Slot(c, "denoised_bilateral_tx"))
      m3 == SubmitBilateral(m2, c)
      m4 == Swap(m3, Slot(c, "denoised_temporal_tx"), Slot(c, "radiance_history_tx"))
      m5 == Swap(m4, Mod("denoise_variance_tx_"), Slot(c, "variance_history_tx"))
      m6 == [m5 EXCEPT !.result = [result_ |-> "denoised_bilateral_tx", history_ |-> "none"]]
  IN  Release(m6, Slot(c, "denoised_temporal_tx"))

\* Horizon scan of the closure.
HorizonScanBinds(m) ==
  [horizon_radiance_img |-> m.tex[Mod("horizon_radiance_tx_")].id,
   horizon_occlusion_img |-> m.tex[Mod("horizon_occlusion_tx_")].id,
   screen_radiance_tx |-> m.tex[Mod("downsampled_in_radiance_tx_")].id,
   screen_normal_tx |-> m.tex[Mod("downsampled_in_normal_tx_")].id]
HorizonDenoiseBinds(m) ==
  [horizon_radiance_img |-> m.tex[Mod("horizon_radiance_tx_")].id,
   horizon_occlusion_img |-> m.tex[Mod("horizon_occlusion_tx_")].id,
   radiance_img |-> m.ptr["horizon_scan_output_tx_"],
   tile_mask_img |-> m.tex[Mod("tile_horizon_denoise_tx_")].id]
SubmitHorizonScan(m, c) ==
  Submit(m, c, "horizon_scan_ps", HorizonScanBinds(m),
         {"horizon_radiance_img", "horizon_occlusion_img"})
SetHorizonOutput(m, c) == SetPtr(m, "horizon_scan_output_tx_", Slot(c, m.result.result_))
SubmitHorizonDenoise(m, c) ==
  Submit(m, c, "horizon_denoise_ps_", HorizonDenoiseBinds(m), {"radiance_img"})
TraceHorizon_releases_before_denoise(m, c, res) ==
  LET m1 == Acquire(m, Mod("horizon_occlusion_tx_"), res)
      m2 == Acquire(m1, Mod("horizon_radiance_tx_"), res)
      m3 == SubmitHorizonScan(m2, c)
      m4 == SetHorizonOutput(m3, c)
      m5 == Release(m4, Mod("horizon_occlusion_tx_"))
      m6 == Release(m5, Mod("horizon_radiance_tx_"))
  IN  SubmitHorizonDenoise(m6, c)
TraceHorizon(m, c, res) ==
  LET m1 == Acquire(m, Mod("horizon_occlusion_tx_"), res)
      m2 == Acquire(m1, Mod("horizon_radiance_tx_"), res)
      m3 == SubmitHorizonScan(m2, c)
      m4 == SetHorizonOutput(m3, c)
      m5 == SubmitHorizonDenoise(m4, c)
      m6 == Release(m5, Mod("horizon_occlusion_tx_"))
  IN  Release(m6, Mod("horizon_radiance_tx_"))

\* The whole of trace() for closure c.
TraceTemporalIf_always_saves(temporal, m, c, extent, bilateral, main_persmat) ==
  IF temporal THEN TraceTemporal(m, c, extent, bilateral, main_persmat)
  ELSE [m EXCEPT !.history_persmat = main_persmat]
TraceTemporalIf(temporal, m, c, extent, bilateral, main_persmat) ==
  IF temporal THEN TraceTemporal(m, c, extent, bilateral, main_persmat) ELSE m
TraceBilateralIf(bilateral, m, c, extent) ==
  IF bilateral THEN TraceBilateral(m, c, extent) ELSE m
TraceHorizonIf(horizon, m, c, res) ==
  IF horizon THEN TraceHorizon(m, c, res) ELSE m
TraceBody(m, c, options, active_closures, extent, main_persmat, horizon, force_no_tracing) ==
  IF c \notin active_closures
    THEN TraceEarlyOut(m, c)
    ELSE
      LET res == tracing_res(options, extent)
          temporal == use_temporal_denoise(options)
          bilateral == use_bilateral_denoise(options)
          m1 == TraceRaySetup(m, c, options)
          m2 == TraceRays(m1, c, res, force_no_tracing)
          m3 == TraceSpatial(m2, c, extent, temporal)
          m4 == TraceTemporalIf(temporal, m3, c, extent, bilateral, main_persmat)
          m5 == TraceValidHistory(m4, temporal)
          m6 == TraceReleaseHit(m5)
          m7 == TraceBilateralIf(bilateral, m6, c, extent)
          m8 == Release(m7, Mod("denoise_variance_tx_"))
      IN  TraceHorizonIf(horizon, m8, c, res)

(***************************************************************************)
(* RayTraceModule::render, up to its first trace() call and after its      *)
(* last one.                                                               *)
(***************************************************************************)
screen_radiance_front_tx == -1
screen_radiance_back_tx == -2

ceil_to_multiple_u(a, b) == ((a + b - 1) \div b) * b

use_horizon_scan_any_active_set(options, active_closures) ==
  options.screen_trace_max_roughness < 10
use_horizon_scan(options, active_closures) ==
  /\ options.screen_trace_max_roughness < 10
  /\ active_closures \notin {{"refraction"}, CLOSURE_NONE}

\* render() computes the scale and the tracing resolution on its own, from the
\* options it copies out of the module.
render_tracing_res_floor(options, extent) ==
  <<extent[1] \div max_ii(1, power_of_2_max_i(options.resolution_scale)),
    extent[2] \div max_ii(1, power_of_2_max_i(options.resolution_scale))>>
render_resolution_scale(options) == max_ii(1, power_of_2_max_i(options.resolution_scale))
render_tracing_res(options, extent) ==
  divide_ceil(extent, <<render_resolution_scale(options), render_resolution_scale(options)>>)

Resize(m, buf, size) ==
  [m EXCEPT !.log = Append(@, Event("resize", "module", buf, NoTex, [size |-> size]))]

RenderTiles_denoise_lists_by_tracing_count(m, options, extent) ==
  LET group_size == <<RAYTRACE_GROUP_SIZE, RAYTRACE_GROUP_SIZE>>
      denoise_tiles == divide_ceil(extent, group_size)
      raytrace_tiles == divide_ceil(render_tracing_res(options, extent), group_size)
      raytrace_tile_count == raytrace_tiles[1] * raytrace_tiles[2]
      m1 == Ensure(m, Mod("tile_raytrace_denoise_tx_"), denoise_tiles)
      m2 == Ensure(m1, Mod("tile_raytrace_tracing_tx_"), raytrace_tiles)
      m3 == Ensure(m2, Mod("tile_horizon_denoise_tx_"), denoise_tiles)
      m4 == Ensure(m3, Mod("tile_horizon_tracing_tx_"), raytrace_tiles)
      m5 == Clear(m4, Mod("tile_raytrace_denoise_tx_"))
      m6 == Clear(m5, Mod("tile_raytrace_tracing_tx_"))
      m7 == Clear(m6, Mod("tile_horizon_denoise_tx_"))
      m8 == Clear(m7, Mod("tile_horizon_tracing_tx_"))
      m9 == Resize(m8, "horizon_tracing_tiles_buf_", ceil_to_multiple_u(raytrace_tile_count, 512))
      m10 == Resize(m9, "horizon_denoise_tiles_buf_", ceil_to_multiple_u(raytrace_tile_count, 512))
      m11 == Resize(m10, "raytrace_tracing_tiles_buf_", ceil_to_multiple_u(raytrace_tile_count, 512))
  IN  Resize(m11, "raytrace_denoise_tiles_buf_", ceil_to_multiple_u(raytrace_tile_count, 512))
RenderTiles(m, options, extent) ==
  LET group_size == <<RAYTRACE_GROUP_SIZE, RAYTRACE_GROUP_SIZE>>
      denoise_tiles == divide_ceil(extent, group_size)
      raytrace_tiles == divide_ceil(render_tracing_res(options, extent), group_size)
      denoise_tile_count == denoise_tiles[1] * denoise_tiles[2]
      raytrace_tile_count == raytrace_tiles[1] * raytrace_tiles[2]
      m1 == Ensure(m, Mod("tile_raytrace_denoise_tx_"), denoise_tiles)
      m2 == Ensure(m1, Mod("tile_raytrace_tracing_tx_"), raytrace_tiles)
      m3 == Ensure(m2, Mod("tile_horizon_denoise_tx_"), denoise_tiles)
      m4 == Ensure(m3, Mod("tile_horizon_tracing_tx_"), raytrace_tiles)
      m5 == Clear(m4, Mod("tile_raytrace_denoise_tx_"))
      m6 == Clear(m5, Mod("tile_raytrace_tracing_tx_"))
      m7 == Clear(m6, Mod("tile_horizon_denoise_tx_"))
      m8 == Clear(m7, Mod("tile_horizon_tracing_tx_"))
      m9 == Resize(m8, "horizon_tracing_tiles_buf_", ceil_to_multiple_u(raytrace_tile_count, 512))
      m10 == Resize(m9, "horizon_denoise_tiles_buf_", ceil_to_multiple_u(denoise_tile_count, 512))
      m11 == Resize(m10, "raytrace_tracing_tiles_buf_", ceil_to_multiple_u(raytrace_tile_count, 512))
  IN  Resize(m11, "raytrace_denoise_tiles_buf_", ceil_to_multiple_u(denoise_tile_count, 512))

SubmitHorizonSetup(m) ==
  Submit(m, "module", "horizon_setup_ps_",
         [in_radiance_tx |-> m.ptr["screen_radiance_tx_"],
          out_radiance_img |-> m.tex[Mod("downsampled_in_radiance_tx_")].id,
          out_normal_img |-> m.tex[Mod("downsampled_in_normal_tx_")].id],
         {"out_radiance_img", "out_normal_img"})
RenderHorizonSetup(m, res) ==
  LET m1 == Acquire(m, Mod("downsampled_in_radiance_tx_"), res)
      m2 == Acquire(m1, Mod("downsampled_in_normal_tx_"), res)
      m3 == [m2 EXCEPT !.ptr["screen_radiance_tx_"] = screen_radiance_front_tx]
  IN  SubmitHorizonSetup(m3)

SubmitClassify(m, active_closures) ==
  IF active_closures # CLOSURE_NONE
    THEN Submit(m, "module", "tile_classify_ps_", TileMaskBinds(m),
                {"tile_raytrace_denoise_img", "tile_raytrace_tracing_img",
                 "tile_horizon_denoise_img", "tile_horizon_tracing_img"})
    ELSE m
RenderSetup(m, options, active_closures, extent) ==
  LET m1 == RenderTiles(m, options, extent)
      m2 == IF use_horizon_scan(options, active_closures)
              THEN RenderHorizonSetup(m1, render_tracing_res(options, extent)) ELSE m1
  IN  SubmitClassify(m2, active_closures)

RenderFinish(m) ==
  Release(Release(m, Mod("downsampled_in_radiance_tx_")), Mod("downsampled_in_normal_tx_"))

\* RayTraceResultTexture::release of one closure's handle: a handle that names
\* a history buffer swaps its texture with it, then the handle's texture goes
\* back to the pool.
ResultRelease(m, c, r) ==
  IF r.result_ = "none" THEN m
  ELSE IF r.history_ # "none"
    THEN Release(Swap(m, Slot(c, r.result_), Slot(c, r.history_)), Slot(c, r.result_))
    ELSE Release(m, Slot(c, r.result_))

(***************************************************************************)
(* Actions.                                                                *)
(***************************************************************************)
Machine(c) ==
  [tex |-> tex, ptr |-> NoPtr, log |-> log, result |-> NoResult,
   valid_history |-> IF c \in Closures THEN valid_history[c] ELSE FALSE,
   history_persmat |-> IF c \in Closures THEN history_persmat[c] ELSE 0]

\* Texture objects are only ever compared for identity, so the objects that
\* live on from one frame to the next (the history and tile-mask textures) are
\* renamed to one fixed id per slot when a frame starts: states that differ
\* only in the names of their objects are the same state.
SlotId(s) ==
  LET owner == IF s[1] = "module" THEN 3 ELSE closure_index(s[1])
      field == CASE s[2] \in {"radiance_history_tx", "tile_raytrace_denoise_tx_"} -> 1
                 [] s[2] \in {"variance_history_tx", "tile_raytrace_tracing_tx_"} -> 2
                 [] s[2] \in {"tilemask_history_tx", "tile_horizon_denoise_tx_"} -> 3
                 [] OTHER -> 4
  IN  4 * owner + field
Renamed(t) ==
  [s \in Slots |-> IF t[s].id = 0 THEN t[s] ELSE [t[s] EXCEPT !.id = SlotId(s)]]

\* The name a texture object gets when the frame starts; 0 if the object does
\* not exist any more.
RenamedId(t, id) ==
  IF id # 0 /\ \E s \in Slots : t[s].id = id
    THEN SlotId(CHOOSE s \in Slots : t[s].id = id)
    ELSE 0
\* The object the temporal pass of closure c wrote its radiance to in the frame
\* recorded by l; 0 if the pass was not submitted.
TemporalOutput(l, c) ==
  LET P(j) == l[j].op = "submit" /\ l[j].owner = c /\ l[j].name = "denoise_temporal_ps_"
  IN  IF \E j \in DOMAIN l : P(j)
        THEN l[CHOOSE j \in DOMAIN l : P(j)].binds.out_radiance_img
        ELSE 0

\* What a call of trace() ran, as the next frame remembers it.
CallKind(f) ==
  IF ~f.active THEN "inactive"
  ELSE IF f.use_bilateral_denoise THEN "bilateral"
  ELSE IF f.use_temporal_denoise THEN "temporal"
  ELSE "plain"

\* RayTraceModule::init: the scene's options are read at the start of a frame.
ModuleInit(D) ==
  /\ pc = "idle"
  /\ \E options \in D.options, method \in D.methods :
       /\ ray_tracing_options_' = options
       /\ tracing_method_' = method
  /\ pc' = "render"
  /\ prev' = [c \in Closures |-> IF flags[c].called THEN CallKind(flags[c]) ELSE prev[c]]
  /\ prev_extent' = frame.extent
  /\ frame' = NoFrame
  /\ flags' = [c \in Closures |-> NoFlags]
  /\ log' = <<>>
  /\ call_begin' = 0
  /\ tex' = Renamed(tex)
  /\ carried' = [c \in Closures |-> RenamedId(tex, TemporalOutput(log, c))]
  /\ calls' = <<>>
  /\ UNCHANGED <<valid_history, history_persmat, result>>

\* render() until its first call of trace().
RenderBegin(D) ==
  /\ pc = "render"
  /\ \E active_closures \in D.active_closures, extent \in D.extents,
        main_persmat \in D.views, do_refraction_tracing \in D.do_refraction_tracing :
       \E m \in {RenderSetup(Machine("module"), ray_tracing_options_, active_closures,
                               extent)} :
           /\ frame' = [active_closures |-> active_closures, extent |-> extent,
                        main_persmat |-> main_persmat,
                        use_horizon_scan |->
                          use_horizon_scan(ray_tracing_options_, active_closures),
                        do_refraction_tracing |-> do_refraction_tracing]
           /\ tex' = m.tex
           /\ log' = m.log
  /\ pc' = "diffuse"
  /\ call_begin' = 0
  /\ UNCHANGED <<ray_tracing_options_, tracing_method_, valid_history, history_persmat,
                 result, flags, prev, prev_extent, carried, calls>>

ClosureFlags(c, options, active_closures) ==
  [called |-> TRUE, active |-> c \in active_closures,
   use_denoise |-> use_denoise(options),
   use_spatial_denoise |-> use_spatial_denoise(options),
   use_temporal_denoise |-> use_temporal_denoise(options),
   use_bilateral_denoise |-> use_bilateral_denoise(options),
   valid_on_entry |-> valid_history[c],
   radiance_on_entry |-> tex[Slot(c, "radiance_history_tx")].extent]

NextPc(c) ==
  IF c = "diffuse" THEN "reflection" ELSE IF c = "reflection" THEN "refraction" ELSE "finish"

\* eClosureBits values are sets of bits.  The bits trace() can be asked for,
\* and two bits of the enumeration it cannot.
CLOSURE_DIFFUSE == {"diffuse"}
CLOSURE_REFLECTION == {"reflection"}
CLOSURE_REFRACTION == {"refraction"}
ClosureBits == SUBSET (Closures \cup {"translucent", "emission"})
count_bits_i(bits) == Cardinality(bits)
\* The two assertions at the head of trace().
TraceAsserts(bits) ==
  /\ count_bits_i(bits) = 1
  /\ bits = bits \cap (CLOSURE_REFLECTION \cup CLOSURE_REFRACTION \cup CLOSURE_DIFFUSE)
\* The per-closure passes and buffers trace() selects; they stay null when
\* the argument is none of the three bits.
denoise_buf(bits) ==
  IF bits = CLOSURE_DIFFUSE THEN "diffuse"
  ELSE IF bits = CLOSURE_REFLECTION THEN "reflection"
  ELSE IF bits = CLOSURE_REFRACTION THEN "refraction" ELSE "nullptr"
\* The raytrace_closure argument render() passes at each of its three calls.
RenderCall_reflection_last(c) ==
  IF c = "diffuse" THEN CLOSURE_DIFFUSE
  ELSE IF c = "reflection" THEN CLOSURE_REFRACTION ELSE CLOSURE_REFLECTION
RenderCall(c) ==
  IF c = "diffuse" THEN CLOSURE_DIFFUSE
  ELSE IF c = "reflection" THEN CLOSURE_REFLECTION ELSE CLOSURE_REFRACTION

\* Tracing is replaced by the fallback when the method is "none", and for
\* refraction when render() is told not to trace refraction.
force_no_tracing_ignores_method(method, c, do_refraction_tracing) ==
  c = "refraction" /\ ~do_refraction_tracing
force_no_tracing(method, c, do_refraction_tracing) ==
  \/ method = "RAYTRACE_EEVEE_METHOD_NONE"
  \/ (c = "refraction" /\ ~do_refraction_tracing)

\* The call of trace() that render() issues for closure c in the current
\* frame, under the given tracing method.
TraceCall(c, method) ==
  LET horizon == IF c = "refraction" THEN FALSE ELSE frame.use_horizon_scan
      screen == IF c = "refraction" THEN screen_radiance_back_tx
                ELSE screen_radiance_front_tx
      m0 == [Machine(denoise_buf(RenderCall(c))) EXCEPT !.ptr["screen_radiance_tx_"] = screen]
  IN  TraceBody(m0, denoise_buf(RenderCall(c)), ray_tracing_options_, frame.active_closures, frame.extent,
                frame.main_persmat, horizon,
                force_no_tracing(method, c, frame.do_refraction_tracing))

\* One call of trace() by render(), for closure c.
Trace(c) ==
  /\ pc = c
  /\ \E m \in {TraceCall(c, tracing_method_)} :
         /\ tex' = m.tex
         /\ log' = m.log
         /\ result' = [result EXCEPT ![c] = m.result]
         /\ valid_history' = [valid_history EXCEPT ![denoise_buf(RenderCall(c))] = m.valid_history]
         /\ history_persmat' =
              [history_persmat EXCEPT ![denoise_buf(RenderCall(c))] = m.history_persmat]
  /\ flags' = [flags EXCEPT ![c] = ClosureFlags(c, ray_tracing_options_, frame.active_closures)]
  /\ call_begin' = Len(log)
  /\ pc' = NextPc(c)
  /\ calls' = Append(calls, RenderCall(c))
  /\ UNCHANGED <<ray_tracing_options_, tracing_method_, frame, prev, prev_extent, carried>>

\* render() after its last call of trace().
RenderEnd ==
  /\ pc = "finish"
  /\ \E m \in {RenderFinish(Machine("module"))} : tex' = m.tex /\ log' = m.log
  /\ pc' = "release"
  /\ call_begin' = Len(log)
  /\ UNCHANGED <<ray_tracing_options_, tracing_method_, frame, valid_history,
                 history_persmat, result, flags, prev, prev_extent, carried, calls>>

\* RayTraceResult::release: the caller is done with the frame's results.
ReleaseResults ==
  /\ pc = "release"
  /\ LET m1 == ResultRelease(Machine("module"), "diffuse", result["diffuse"])
         m2 == ResultRelease(m1, "reflection", result["reflection"])
         m3 == ResultRelease(m2, "refraction", result["refraction"])
     IN  \E m \in {m3} : tex' = m.tex /\ log' = m.log
  /\ result' = [c \in Closures |-> NoResult]
  /\ pc' = "idle"
  /\ call_begin' = Len(log)
  /\ UNCHANGED <<ray_tracing_options_, tracing_method_, frame, valid_history,
                 history_persmat, flags, prev, prev_extent, carried, calls>>

\* The inputs a specification draws from.
\* Spec: frames of every denoise level (denoising on with no stage, with the
\* spatial stage, up to the temporal stage, all stages; denoising off with
\* every stage bit set), of every extent and view, with no closure, one
\* closure or all closures active, under one view.
DenoiseLevels ==
  {o \in Options :
     \/ o.use_denoise /\ o.denoise_stages \in
                           {{}, {"spatial"}, {"spatial", "temporal"}, Stages}
     \/ ~o.use_denoise /\ o.denoise_stages = Stages}
FrameInputs ==
  [options |-> {o \in DenoiseLevels : o.screen_trace_max_roughness = 5},
   methods |-> {"RAYTRACE_EEVEE_METHOD_SCREEN"},
   active_closures |-> {{}, {"diffuse"}, Closures},
   extents |-> Extents,
   views |-> {1},
   do_refraction_tracing |-> {TRUE}]
\* SpecGating: frames of every combination of the denoise flag and the stage
\* bits, without screen tracing and without horizon scan.
GatingInputs ==
  [options |-> {o \in Options : o.screen_trace_max_roughness = 10},
   methods |-> {"RAYTRACE_EEVEE_METHOD_NONE"},
   active_closures |-> {{"reflection"}, Closures},
   extents |-> {dummy_extent},
   views |-> Views,
   do_refraction_tracing |-> {FALSE}]

\* SpecMethod: frames with and without screen tracing, with and without
\* refraction tracing, of every denoise level, two tiles wide.
MethodInputs ==
  [options |-> {o \in DenoiseLevels : o.screen_trace_max_roughness = 5},
   methods |-> TracingMethods,
   active_closures |-> {{"diffuse"}, Closures},
   extents |-> {<<RAYTRACE_GROUP_SIZE + 1, 1>>},
   views |-> {1},
   do_refraction_tracing |-> BOOLEAN]

\* SpecTiles: frames of every resolution scale from 0 up, of extents whose
\* tile counts lie below, at and above a multiple of 512, with one closure
\* active and the horizon scan on.
MaxScale == 5
TileExtents ==
  {<<x, y>> : x \in {1, 512 * RAYTRACE_GROUP_SIZE, 512 * RAYTRACE_GROUP_SIZE + 1,
                      1024 * RAYTRACE_GROUP_SIZE + 1},
              y \in {1, RAYTRACE_GROUP_SIZE + 1}}
TilesInputs ==
  [options |-> [use_denoise : {FALSE}, denoise_stages : {Stages},
                resolution_scale : 0..MaxScale, screen_trace_max_roughness : {5}],
   methods |-> {"RAYTRACE_EEVEE_METHOD_SCREEN"},
   active_closures |-> {{"diffuse"}},
   extents |-> TileExtents,
   views |-> {1},
   do_refraction_tracing |-> {TRUE}]

\* SpecHorizon: frames with the max-roughness threshold below 1 and at 1, with
\* no closure, refraction only, one or two other closures, or all closures
\* active, with denoising off or with every stage.
HorizonInputs ==
  [options |-> {o \in Options : o.denoise_stages = Stages},
   methods |-> {"RAYTRACE_EEVEE_METHOD_SCREEN"},
   active_closures |-> {CLOSURE_NONE, {"refraction"}, {"diffuse"},
                        {"reflection", "refraction"}, Closures},
   extents |-> {dummy_extent},
   views |-> {1},
   do_refraction_tracing |-> {TRUE}]

NextOver(D) ==
  \/ ModuleInit(D)
  \/ RenderBegin(D)
  \/ \E c \in Closures : Trace(c)
  \/ RenderEnd
  \/ ReleaseResults

Next == NextOver(FrameInputs)

Spec == Init /\ [][Next]_vars

NextGating == NextOver(GatingInputs)

SpecGating == Init /\ [][NextGating]_vars

NextMethod == NextOver(MethodInputs)

SpecMethod == Init /\ [][NextMethod]_vars

NextHorizon == NextOver(HorizonInputs)

SpecHorizon == Init /\ [][NextHorizon]_vars

NextTiles == NextOver(TilesInputs)

SpecTiles == Init /\ [][NextTiles]_vars

(***************************************************************************)
(* Observations on the log.                                                *)
(***************************************************************************)
\* What the last step did.
CallLog == SubSeq(log, call_begin + 1, Len(log))
\* trace() of closure c has just returned.
JustTraced(c) == pc = NextPc(c)
IsSubmit(e, c, pass) == e.op = "submit" /\ e.owner = c /\ e.name = pass
IsOn(e, op, c, field) == e.op = op /\ e.owner = c /\ e.name = field
\* The call created (or recreated) the closure's buffer.
Created(c, field) == \E i \in DOMAIN CallLog : IsOn(CallLog[i], "create", c, field)
TemporalSubmitted(c) ==
  \E j \in DOMAIN CallLog : IsSubmit(CallLog[j], c, "denoise_temporal_ps_")
\* The call cleared the tile-mask history before it submitted the temporal
\* pass, which therefore read a tile mask of zeros.
ClearedBeforeTemporal(c) ==
  \E j \in DOMAIN CallLog :
    /\ IsSubmit(CallLog[j], c, "denoise_temporal_ps_")
    /\ CallLog[j].data.tilemask_history_tx = "zero"
    /\ \E i \in 1..(j - 1) : IsOn(CallLog[i], "clear", c, "tilemask_history_tx")
Placeholder == [result_ |-> "denoised_spatial_tx", history_ |-> "none"]

(***************************************************************************)
(* C1.  For every active-closure call of trace() and every combination of  *)
(* the denoise flag and the three stage bits, useSpatial = denoiseEnabled  *)
(* and spatialBit, useTemporal = useSpatial and temporalBit, useBilateral  *)
(* = useTemporal and bilateralBit, hence useBilateral => useTemporal =>    *)
(* useSpatial => denoiseEnabled.                                           *)
(***************************************************************************)
C1_StageGating ==
  \A c \in Closures :
    (flags[c].called /\ flags[c].active) =>
      LET f == flags[c]
          o == ray_tracing_options_
      IN  /\ f.use_spatial_denoise = (o.use_denoise /\ "spatial" \in o.denoise_stages)
          /\ f.use_temporal_denoise =
               (f.use_spatial_denoise /\ "temporal" \in o.denoise_stages)
          /\ f.use_bilateral_denoise =
               (f.use_temporal_denoise /\ "bilateral" \in o.denoise_stages)
          /\ f.use_bilateral_denoise => f.use_temporal_denoise
          /\ f.use_temporal_denoise => f.use_spatial_denoise
          /\ f.use_spatial_denoise => o.use_denoise
          /\ JustTraced(c) => (f.use_temporal_denoise <=> TemporalSubmitted(c))
\* An active call with denoising on and the later bits set but not the spatial bit.
C1_Witness ==
  \E c \in Closures :
    /\ JustTraced(c) /\ flags[c].active
    /\ ray_tracing_options_.use_denoise
    /\ ray_tracing_options_.denoise_stages = {"temporal", "bilateral"}

(***************************************************************************)
(* C2.  A call of trace() for a closure that is not in the active mask     *)
(* submits no pass, acquires nothing but the 1x1 placeholder, frees the    *)
(* closure's radiance, variance and tile-mask history and returns the      *)
(* placeholder.                                                            *)
(***************************************************************************)
C2_InactiveEarlyOut ==
  \A c \in Closures :
    (JustTraced(c) /\ c \notin frame.active_closures) =>
      /\ \A i \in DOMAIN CallLog : CallLog[i].op \in {"acquire", "free"}
      /\ \A i \in DOMAIN CallLog :
           CallLog[i].op = "acquire" =>
             /\ IsOn(CallLog[i], "acquire", c, "denoised_spatial_tx")
             /\ CallLog[i].tx.extent = <<1, 1>>
      /\ Cardinality({i \in DOMAIN CallLog : CallLog[i].op = "acquire"}) = 1
      /\ \A h \in HistoryFields :
           /\ tex[Slot(c, h)] = NoTex
           /\ \E i \in DOMAIN CallLog : IsOn(CallLog[i], "free", c, h)
      /\ result[c] = Placeholder
      /\ tex[Slot(c, "denoised_spatial_tx")].extent = <<1, 1>>
      /\ \A s \in Slots :
           (s # Slot(c, "denoised_spatial_tx") /\ s[2] \notin HistoryFields) =>
             \A i \in DOMAIN CallLog : ~(CallLog[i].owner = s[1] /\ CallLog[i].name = s[2])
\* An inactive call that really freed a history texture, in a frame whose other
\* closures run the whole pipeline, horizon scan included.
C2_Witness ==
  \E c \in Closures :
    /\ JustTraced(c) /\ c \notin frame.active_closures
    /\ frame.use_horizon_scan
    /\ \E i \in DOMAIN CallLog : CallLog[i].op = "free" /\ CallLog[i].tx.id # 0

(***************************************************************************)
(* C3.  The inactive path is idempotent: a call for an inactive closure    *)
(* that follows a call for the same closure, inactive too, leaves the      *)
(* closure's history buffers, valid_history and stored matrix as they were *)
(* and returns the same 1x1 placeholder.                                   *)
(***************************************************************************)
C3_InactiveIdempotent ==
  [][\A c \in Closures :
       (pc = c /\ c \notin frame.active_closures /\ prev[c] = "inactive") =>
         /\ valid_history'[c] = valid_history[c]
         /\ history_persmat'[c] = history_persmat[c]
         /\ \A h \in HistoryFields :
              tex'[Slot(c, h)] = tex[Slot(c, h)] /\ tex'[Slot(c, h)] = NoTex
         /\ result'[c] = Placeholder
         /\ tex'[Slot(c, "denoised_spatial_tx")].extent = <<1, 1>>
         /\ tex'[Slot(c, "denoised_temporal_tx")] = NoTex
         /\ tex'[Slot(c, "denoised_bilateral_tx")] = NoTex]_vars
\* The second of two inactive calls, after a frame that ran the temporal stage.
C3_Witness ==
  \E c \in Closures :
    /\ JustTraced(c) /\ c \notin frame.active_closures
    /\ prev[c] = "inactive"
    /\ valid_history[c]
    /\ history_persmat[c] # 0

(***************************************************************************)
(* C4.  As stated: whenever the frame's call for a closure did not run the *)
(* temporal stage (stage disabled, denoising disabled, or the closure      *)
(* inactive), valid_history of the closure is false when the next frame    *)
(* starts.  The inactive path returns before the flag is assigned.         *)
(***************************************************************************)
C4_InvalidAfterFrameWithoutTemporal ==
  \A c \in Closures :
    (pc = "idle" /\ flags[c].called
       /\ ~(flags[c].active /\ flags[c].use_temporal_denoise)) =>
      valid_history[c] = FALSE

C6_ValidHistoryIsUseTemporal ==
  \A c \in Closures :
    (JustTraced(c) /\ flags[c].active) =>
      /\ valid_history[c] = flags[c].use_temporal_denoise
      /\ valid_history[c] <=> TemporalSubmitted(c)
\* An active call without the temporal stage that found the flag true.
C6_Witness ==
  \E c \in Closures :
    /\ JustTraced(c) /\ flags[c].active
    /\ flags[c].valid_on_entry
    /\ ~flags[c].use_temporal_denoise

(***************************************************************************)
(* C7.  If the previous frame's call for a closure did not run the         *)
(* temporal stage and this frame's call does, the tile-mask history is     *)
(* cleared before the temporal pass is submitted and the pass reads a      *)
(* tile mask of zeros.                                                     *)
(***************************************************************************)
C7_ColdStartAfterFrameWithoutTemporal ==
  \A c \in Closures :
    (JustTraced(c) /\ flags[c].active /\ flags[c].use_temporal_denoise
       /\ prev[c] \in {"inactive", "plain"}) =>
      ClearedBeforeTemporal(c)
\* The temporal stage comes back on a closure whose history textures were kept.
C7_Witness ==
  \E c \in Closures :
    /\ JustTraced(c) /\ flags[c].active /\ flags[c].use_temporal_denoise
    /\ prev[c] = "plain"
    /\ ~Created(c, "radiance_history_tx")
    /\ ~flags[c].valid_on_entry

(***************************************************************************)
(* C8.  As stated: when the frame's extent differs from the previous       *)
(* frame's, or the closure has no history yet, the call recreates the      *)
(* radiance history at the new extent and clears the tile-mask history     *)
(* before the temporal pass.                                               *)
(***************************************************************************)
ExtentChangedOrNoHistory(c) ==
  \/ flags[c].radiance_on_entry = <<0, 0>>
  \/ prev_extent # <<0, 0>> /\ prev_extent # frame.extent
C8_ExtentChangeRecreates ==
  \A c \in Closures :
    (JustTraced(c) /\ flags[c].active /\ flags[c].use_temporal_denoise
       /\ ExtentChangedOrNoHistory(c)) =>
      /\ Created(c, "radiance_history_tx")
      /\ ClearedBeforeTemporal(c)
\* C8, amended: in those cases the tile-mask history is cleared before the
\* temporal pass and the pass binds existing history textures of the frame's
\* extent; the radiance history is recreated exactly when the closure has none
\* or the one it kept has another extent than the frame's.
C8_ExtentChangeColdStart ==
  \A c \in Closures :
    (JustTraced(c) /\ flags[c].active /\ flags[c].use_temporal_denoise
       /\ ExtentChangedOrNoHistory(c)) =>
      /\ ClearedBeforeTemporal(c)
      /\ Created(c, "radiance_history_tx") <=>
           (flags[c].radiance_on_entry # frame.extent)
      /\ tex[Slot(c, "radiance_history_tx")].extent = frame.extent
      /\ \A j \in DOMAIN CallLog :
           IsSubmit(CallLog[j], c, "denoise_temporal_ps_") =>
             /\ CallLog[j].binds.radiance_history_tx # 0
             /\ CallLog[j].binds.variance_history_tx # 0
             /\ CallLog[j].binds.tilemask_history_tx # 0
\* The extent changes between two frames that both run the temporal stage.
C8_Witness ==
  \E c \in Closures :
    /\ JustTraced(c) /\ flags[c].active /\ flags[c].use_temporal_denoise
    /\ prev[c] \in {"temporal", "bilateral"}
    /\ prev_extent # frame.extent
    /\ Created(c, "radiance_history_tx")

(***************************************************************************)
(* C9.  As stated: a call that creates or recreates any of the closure's   *)
(* history buffers (radiance, variance, tile mask) cold-starts the         *)
(* temporal stage: the tile-mask history is cleared before the pass.  The  *)
(* variance history changes size when the bilateral stage is toggled.      *)
(***************************************************************************)
C9_AnyResizeColdStarts ==
  \A c \in Closures :
    (JustTraced(c) /\ flags[c].active /\ flags[c].use_temporal_denoise
       /\ \E h \in HistoryFields : Created(c, h)) =>
      ClearedBeforeTemporal(c)

(***************************************************************************)
(* C10.  As stated: once a frame that ran the temporal stage has released  *)
(* its results, the closure's radiance history and variance history are    *)
(* the objects the temporal pass wrote, with or without the bilateral      *)
(* stage.                                                                  *)
(***************************************************************************)
RanTemporal(c) == pc = "idle" /\ flags[c].active /\ flags[c].use_temporal_denoise
C10_HistoryIsTemporalOutput ==
  \A c \in Closures :
    RanTemporal(c) =>
      \E j \in DOMAIN log :
        /\ IsSubmit(log[j], c, "denoise_temporal_ps_")
        /\ tex[Slot(c, "radiance_history_tx")].id = log[j].binds.out_radiance_img
        /\ tex[Slot(c, "variance_history_tx")].id = log[j].binds.out_variance_img
\* C10, amended: the radiance history is the object the temporal pass wrote,
\* with or without the bilateral stage, and nothing is copied into a history
\* texture; the variance history is the object the temporal pass wrote only
\* when the bilateral stage ran, otherwise it is still the object the pass
\* read as variance history.
C10_HistorySwap ==
  \A c \in Closures :
    RanTemporal(c) =>
      /\ \E j \in DOMAIN log :
           /\ IsSubmit(log[j], c, "denoise_temporal_ps_")
           /\ tex[Slot(c, "radiance_history_tx")].id = log[j].binds.out_radiance_img
           /\ tex[Slot(c, "radiance_history_tx")].data = "written"
           /\ tex[Slot(c, "variance_history_tx")].id =
                IF flags[c].use_bilateral_denoise
                  THEN log[j].binds.out_variance_img
                  ELSE log[j].binds.variance_history_tx
           /\ log[j].binds.out_variance_img # log[j].binds.variance_history_tx
      /\ \A i \in DOMAIN log :
           ~(log[i].op = "copy" /\ log[i].owner = c /\ log[i].name \in {"radiance_history_tx", "variance_history_tx"})
\* The second of two frames that both ran the bilateral stage.
C10_Witness ==
  \E c \in Closures :
    /\ RanTemporal(c) /\ flags[c].use_bilateral_denoise
    /\ prev[c] = "bilateral"
    /\ prev_extent = frame.extent

(***************************************************************************)
(* C11.  After a frame that ran the bilateral stage for a closure, the     *)
(* object the temporal pass wrote its radiance to is the object the next   *)
(* frame's temporal pass binds as history radiance (when that pass runs on *)
(* the history it found, not on a recreated one), and the object that was  *)
(* history radiance is the one released; the exchange happens after the    *)
(* bilateral pass is submitted and once per frame.                         *)
(***************************************************************************)
\* Positions in the frame's log of the exchanges of closure c's radiance.
RadianceSwaps(c) == {i \in DOMAIN log : log[i].op = "swap" /\ log[i].owner = c}
TracePasses == {"trace_ray_ps", "trace_fallback_ps_"}
IsTraceStage(e) == e.op = "submit" /\ e.name \in TracePasses
\* A log with every trace-stage submission replaced by one marker.
MaskTraceStage(l) ==
  [i \in DOMAIN l |-> IF IsTraceStage(l[i]) THEN [op |-> "trace stage"] ELSE l[i]]
C12_MethodNoneIsFallback ==
  [][\A c \in Closures :
       (pc = c /\ c \in frame.active_closures
          /\ tracing_method_ = "RAYTRACE_EEVEE_METHOD_NONE") =>
         /\ \E j \in (Len(log) + 1)..Len(log') :
              IsSubmit(log'[j], c, "trace_fallback_ps_")
         /\ \A j \in (Len(log) + 1)..Len(log') :
              log'[j].op = "submit" => log'[j].name # "trace_ray_ps"
         /\ \E alt \in {TraceCall(c, "RAYTRACE_EEVEE_METHOD_SCREEN")} :
              /\ MaskTraceStage(log') = MaskTraceStage(alt.log)
              /\ tex' = alt.tex
              /\ valid_history'[c] = alt.valid_history
              /\ history_persmat'[c] = alt.history_persmat
              /\ result'[c] = alt.result]_vars
\* A warm call of the whole denoise chain under method "none", for a closure
\* that would be screen-traced otherwise.
C12_Witness ==
  \E c \in Closures \ {"refraction"} :
    /\ JustTraced(c) /\ flags[c].active
    /\ tracing_method_ = "RAYTRACE_EEVEE_METHOD_NONE"
    /\ flags[c].use_bilateral_denoise /\ flags[c].valid_on_entry
    /\ \E j \in DOMAIN CallLog : IsSubmit(CallLog[j], c, "trace_fallback_ps_")
    /\ \A j \in DOMAIN CallLog : ~IsSubmit(CallLog[j], c, "trace_ray_ps")

(***************************************************************************)
(* C13.  In every frame the tile classification is submitted before any    *)
(* compaction; for each active closure the passes of the chain are         *)
(* submitted in the order compact, generate, trace, spatial denoise,       *)
(* temporal denoise (iff useTemporal), bilateral denoise (iff              *)
(* useBilateral); every pass of a closure is submitted before any pass of  *)
(* the next closure.                                                       *)
(***************************************************************************)
HorizonPasses == {"horizon_setup_ps_", "horizon_scan_ps", "horizon_denoise_ps_"}
IsChainPass(e) == e.op = "submit" /\ e.name \notin HorizonPasses
\* The names of the chain passes submitted for closure c in the frame, in order.
ChainOf(c) ==
  LET Mine(e) == IsChainPass(e) /\ e.owner = c
      mine == SelectSeq(log, Mine)
  IN  [i \in DOMAIN mine |-> IF mine[i].name \in TracePasses THEN "trace" ELSE mine[i].name]
ExpectedChain(f) ==
  <<"tile_compact_ps_", "generate_ray_ps", "trace", "denoise_spatial_ps">>
    \o (IF f.use_temporal_denoise THEN <<"denoise_temporal_ps_">> ELSE <<>>)
    \o (IF f.use_bilateral_denoise THEN <<"denoise_bilateral_ps">> ELSE <<>>)
Submits == {i \in DOMAIN log : log[i].op = "submit"}
C13_PassOrder ==
  /\ \A i \in Submits :
       log[i].name = "tile_compact_ps_" =>
         \E k \in 1..(i - 1) : IsSubmit(log[k], "module", "tile_classify_ps_")
  /\ \A c \in Closures :
       ChainOf(c) = IF flags[c].called /\ flags[c].active THEN ExpectedChain(flags[c])
                    ELSE <<>>
  /\ \A i \in Submits : \A j \in Submits :
       (i < j /\ log[i].owner \in Closures) =>
         /\ log[j].owner \in Closures
         /\ closure_index(log[i].owner) <= closure_index(log[j].owner)
\* A frame with all three closures and all stages has submitted everything.
C13_Witness ==
  /\ pc = "finish"
  /\ frame.active_closures = Closures
  /\ frame.use_horizon_scan
  /\ \A c \in Closures : flags[c].use_bilateral_denoise /\ Len(ChainOf(c)) = 6

(***************************************************************************)
(* C14.  As stated: in a frame with at least one active closure the tile   *)
(* classification and the tile compaction are each submitted exactly once, *)
(* however many closures are active.                                       *)
(***************************************************************************)
FrameDone == pc \in {"finish", "release", "idle"} /\ flags["refraction"].called
Count(pass) == Cardinality({i \in Submits : log[i].name = pass})
C14_ClassifyAndCompactOnce ==
  (FrameDone /\ frame.active_closures # CLOSURE_NONE) =>
    /\ Count("tile_classify_ps_") = 1
    /\ Count("tile_compact_ps_") = 1
\* C14, amended: the tile classification is submitted exactly once in a frame
\* with an active closure and not at all in a frame without one; the tile
\* compaction is submitted once by every call of trace() for an active
\* closure, after the call cleared the four dispatch records, so a frame
\* submits as many compactions as it has active closures.
C14_CompactPerClosure ==
  FrameDone =>
    /\ Count("tile_classify_ps_") = IF frame.active_closures # CLOSURE_NONE THEN 1 ELSE 0
    /\ Count("tile_compact_ps_") = Cardinality(frame.active_closures)
    /\ \A c \in Closures :
         Cardinality({i \in Submits : IsSubmit(log[i], c, "tile_compact_ps_")}) =
           IF c \in frame.active_closures THEN 1 ELSE 0
    /\ \A i \in Submits :
         log[i].name = "tile_compact_ps_" =>
           /\ i > 4
           /\ \A k \in (i - 4)..(i - 1) : log[k].op = "clear_to_zero"
\* A frame with three active closures has submitted three compactions.
C14_Witness ==
  /\ FrameDone
  /\ frame.active_closures = Closures
  /\ Count("tile_classify_ps_") = 1
  /\ Count("tile_compact_ps_") = 3

(***************************************************************************)
(* C15.  As stated: a denoise pass is submitted only when its stage is     *)
(* enabled: the spatial pass only if the denoise flag and the spatial bit  *)
(* are set, the temporal pass only if useTemporal, the bilateral pass only *)
(* if useBilateral; with denoising disabled no denoise pass is submitted.  *)
(***************************************************************************)
Submitted(c, pass) == \E j \in DOMAIN CallLog : IsSubmit(CallLog[j], c, pass)
C15_DenoisePassOnlyWhenEnabled ==
  \A c \in Closures :
    (JustTraced(c) /\ flags[c].active) =>
      /\ Submitted(c, "denoise_spatial_ps") => flags[c].use_spatial_denoise
      /\ Submitted(c, "denoise_temporal_ps_") => flags[c].use_temporal_denoise
      /\ Submitted(c, "denoise_bilateral_ps") => flags[c].use_bilateral_denoise
\* C15, amended: the spatial pass is submitted by every call for an active
\* closure, whatever the flags, with skip_denoise set exactly when the spatial
\* stage is disabled; the temporal pass is submitted exactly when useTemporal
\* and the bilateral pass exactly when useBilateral.
C15_SpatialAlwaysSubmitted ==
  \A c \in Closures :
    (JustTraced(c) /\ flags[c].active) =>
      /\ Cardinality({j \in DOMAIN CallLog : IsSubmit(CallLog[j], c, "denoise_spatial_ps")}) = 1
      /\ \E u \in DOMAIN CallLog :
           /\ CallLog[u].op = "push_update"
           /\ CallLog[u].binds.skip_denoise = ~flags[c].use_spatial_denoise
           /\ \E j \in DOMAIN CallLog :
                u < j /\ IsSubmit(CallLog[j], c, "denoise_spatial_ps")
      /\ Submitted(c, "denoise_temporal_ps_") <=> flags[c].use_temporal_denoise
      /\ Submitted(c, "denoise_bilateral_ps") <=> flags[c].use_bilateral_denoise
\* With denoising disabled and every stage bit set, the spatial pass is still
\* submitted, in skip mode, and no other denoise pass is.
C15_Witness ==
  \E c \in Closures :
    /\ JustTraced(c) /\ flags[c].active
    /\ ~ray_tracing_options_.use_denoise
    /\ ray_tracing_options_.denoise_stages = Stages
    /\ Submitted(c, "denoise_spatial_ps")
    /\ ~Submitted(c, "denoise_temporal_ps_")
    /\ \E u \in DOMAIN CallLog :
         CallLog[u].op = "push_update" /\ CallLog[u].binds.skip_denoise

(***************************************************************************)
(* C16.  In every frame's submission sequence, whenever a pass accesses a  *)
(* resource that an earlier pass wrote (a tile mask, a tile list or        *)
(* dispatch record, an image of the previous stage, a downsampled or       *)
(* history texture read by texture fetch), a barrier covering the reader's *)
(* kind of access is issued after the writer's dispatch and before the     *)
(* reader's.                                                               *)
(***************************************************************************)
\* A barrier of the kind is issued by a pass from position i up to, but not
\* including, position j.
BarrierBetween(i, j, kind) ==
  \E k \in i..(j - 1) : log[k].op = "submit" /\ kind \in PassBarrier(log[k].name)
WritesTexture(e, id) ==
  e.op = "submit" /\ id # 0 /\ \E o \in e.outs : e.binds[o] = id
\* The texture that carries the id at position j is the object that carried it
\* at position i: no texture was created or acquired under that id in between.
SameTexture(i, j, id) ==
  \A k \in (i + 1)..(j - 1) : ~(log[k].op \in {"acquire", "create"} /\ log[k].tx.id = id)
C16_BarrierBeforeRead ==
  \A j \in (call_begin + 1)..Len(log) :
    log[j].op = "submit" =>
      /\ \A b \in DOMAIN log[j].binds : \A i \in 1..(j - 1) :
           (WritesTexture(log[i], log[j].binds[b]) /\ SameTexture(i, j, log[j].binds[b])) =>
             BarrierBetween(i, j, AccessKind(b))
      /\ \A buf \in BufReads(log[j].name) : \A i \in 1..(j - 1) :
           (log[i].op = "submit" /\ buf \in BufWrites(log[i].name)) =>
             BarrierBetween(i, j, "storage")
      /\ log[j].name = "denoise_temporal_ps_" => BarrierBetween(1, j, "fetch")
\* A call whose horizon scan fetches the downsampled radiance that the horizon
\* setup wrote, and whose bilateral pass reads what the temporal pass wrote.
C16_Witness ==
  \E c \in Closures :
    /\ JustTraced(c) /\ flags[c].use_bilateral_denoise
    /\ \E j \in (call_begin + 1)..Len(log) :
         /\ IsSubmit(log[j], c, "horizon_scan_ps")
         /\ \E i \in 1..(j - 1) :
              /\ IsSubmit(log[i], "module", "horizon_setup_ps_")
              /\ log[i].binds.out_radiance_img = log[j].binds.screen_radiance_tx
    /\ \E j \in (call_begin + 1)..Len(log) :
         /\ IsSubmit(log[j], c, "denoise_bilateral_ps")
         /\ \E i \in (call_begin + 1)..(j - 1) :
              /\ IsSubmit(log[i], c, "denoise_temporal_ps_")
              /\ WritesTexture(log[i], log[j].binds.in_radiance_img)

(***************************************************************************)
(* C17.  No horizon pass writes into a texture that is, or becomes when    *)
(* the results are released, a closure's radiance, variance or tile-mask   *)
(* history, and a call that ran the horizon passes leaves valid_history    *)
(* as the temporal stage set it.  Violated: with the temporal stage and    *)
(* without the bilateral stage the horizon denoise pass writes into the    *)
(* temporal output, which the result release swaps into the radiance       *)
(* history.                                                                *)
(***************************************************************************)
\* The positions of the horizon passes submitted for closure c.
HorizonSubmits(c) ==
  {j \in Submits : log[j].owner = c /\ log[j].name \in {"horizon_scan_ps", "horizon_denoise_ps_"}}
\* The pass at position j wrote the object that slot s holds now.
WroteWhatIsNow(j, s) ==
  /\ WritesTexture(log[j], tex[s].id)
  /\ SameTexture(j, Len(log) + 1, tex[s].id)
C17_HorizonNeverTouchesHistory ==
  \A c \in Closures :
    /\ (JustTraced(c) \/ pc = "idle") =>
         \A j \in HorizonSubmits(c) : \A f \in HistoryFields :
           ~WroteWhatIsNow(j, Slot(c, f))
    /\ (JustTraced(c) /\ flags[c].active /\ HorizonSubmits(c) # {}) =>
         valid_history[c] = flags[c].use_temporal_denoise

(***************************************************************************)
(* C18.  When trace() returns for an active closure, every pool texture    *)
(* handle used by the call (ray data, ray time, ray radiance, hit          *)
(* variance, hit depth, denoise variance, horizon occlusion, horizon       *)
(* radiance and the closure's denoised outputs) is released, except the    *)
(* one denoised output the returned handle names: the spatial output if    *)
(* the temporal stage did not run, the temporal output if it ran without   *)
(* the bilateral stage, the bilateral output otherwise.  The call's        *)
(* releases balance its acquisitions but for that one.                     *)
(***************************************************************************)
CallPoolFields == PoolFields \ {"downsampled_in_radiance_tx_", "downsampled_in_normal_tx_"}
DenoisedFields == {"denoised_spatial_tx", "denoised_temporal_tx", "denoised_bilateral_tx"}
ResultField(f) ==
  IF f.use_bilateral_denoise THEN "denoised_bilateral_tx"
  ELSE IF f.use_temporal_denoise THEN "denoised_temporal_tx" ELSE "denoised_spatial_tx"
CallCount(op) == Cardinality({i \in DOMAIN CallLog : CallLog[i].op = op})
RayFields == {"ray_data_tx_", "ray_time_tx_", "ray_radiance_tx_"}
LaterPasses == {"denoise_temporal_ps_", "denoise_bilateral_ps", "horizon_scan_ps", "horizon_denoise_ps_"}
RayAcquired(f) == {i \in DOMAIN CallLog : IsOn(CallLog[i], "acquire", "module", f)}
RayReleased(f) == {i \in DOMAIN CallLog : IsOn(CallLog[i], "release", "module", f)}
CallSubmits(passes) == {i \in DOMAIN CallLog : CallLog[i].op = "submit" /\ CallLog[i].name \in passes}
C19_RayBufferLifetime ==
  /\ \A f \in RayFields : tex[Mod(f)] = NoTex
  /\ \A c \in Closures : \A f \in RayFields :
       JustTraced(c) =>
         IF flags[c].active
           THEN /\ Cardinality(RayAcquired(f)) = 1 /\ Cardinality(RayReleased(f)) = 1
                /\ Cardinality(CallSubmits({"generate_ray_ps"})) = 1
                /\ Cardinality(CallSubmits({"denoise_spatial_ps"})) = 1
                /\ \A a \in RayAcquired(f) : \A g \in CallSubmits({"generate_ray_ps"}) : a < g
                /\ \A r \in RayReleased(f) :
                     /\ \A p \in CallSubmits({"denoise_spatial_ps"}) : p < r
                     /\ \A p \in CallSubmits(LaterPasses) : r < p
           ELSE RayAcquired(f) = {}
\* A call that submitted the temporal, bilateral and horizon passes after it
\* released the ray buffers.
C19_Witness ==
  \E c \in Closures :
    /\ JustTraced(c) /\ flags[c].active
    /\ Cardinality(CallSubmits(LaterPasses)) = 4
    /\ \A f \in RayFields : RayReleased(f) # {}

(***************************************************************************)
(* C20.  Every trace() call render() issues passes the two assertions: its *)
(* raytrace_closure argument has exactly one bit set, one of Diffuse,      *)
(* Reflection, Refraction, so the per-closure pass and buffer pointers are *)
(* set; render() issues three calls per frame, in the order Diffuse,       *)
(* Reflection, Refraction.                                                 *)
(***************************************************************************)
RenderOrder == <<CLOSURE_DIFFUSE, CLOSURE_REFLECTION, CLOSURE_REFRACTION>>
CallsAt(p) ==
  CASE p = "render" -> {0}
    [] p = "diffuse" -> {0}
    [] p = "reflection" -> {1}
    [] p = "refraction" -> {2}
    [] p \in {"finish", "release"} -> {3}
    [] OTHER -> {0, 3}
TracingLists == {"raytrace_tracing_tiles_buf_", "horizon_tracing_tiles_buf_"}
DenoiseLists == {"raytrace_denoise_tiles_buf_", "horizon_denoise_tiles_buf_"}
\* The tile mask a list is compacted from.
GridOf(buf) ==
  CASE buf = "raytrace_tracing_tiles_buf_" -> tex[Mod("tile_raytrace_tracing_tx_")].extent
    [] buf = "horizon_tracing_tiles_buf_" -> tex[Mod("tile_horizon_tracing_tx_")].extent
    [] buf = "raytrace_denoise_tiles_buf_" -> tex[Mod("tile_raytrace_denoise_tx_")].extent
    [] buf = "horizon_denoise_tiles_buf_" -> tex[Mod("tile_horizon_denoise_tx_")].extent
\* A grid of tiles covers a resolution exactly: no pixel is outside it and
\* its last row and column of tiles are not empty.
Covers(grid, res) ==
  \A d \in 1..2 :
    /\ grid[d] * RAYTRACE_GROUP_SIZE >= res[d]
    /\ (grid[d] - 1) * RAYTRACE_GROUP_SIZE < res[d]
\* The resolution at the effective scale, by its defining property: the least
\* resolution whose pixels, each standing for scale x scale pixels, cover the
\* extent.
ScaledDown(extent, scale, res) ==
  \A d \in 1..2 : res[d] * scale >= extent[d] /\ (res[d] - 1) * scale < extent[d]
InFrame == pc \in {"diffuse", "reflection", "refraction", "finish", "release"}
Resizes == {i \in DOMAIN log : log[i].op = "resize"}
C21_TileListCapacity ==
  InFrame =>
    /\ {log[i].name : i \in Resizes} = TracingLists \cup DenoiseLists
    /\ \A i \in Resizes :
         /\ log[i].binds.size % 512 = 0
         /\ log[i].binds.size >= GridOf(log[i].name)[1] * GridOf(log[i].name)[2]
    /\ \A b \in DenoiseLists : Covers(GridOf(b), frame.extent)
    /\ \A b \in TracingLists :
         pc = "diffuse" =>
         \E rx \in 1..frame.extent[1], ry \in 1..frame.extent[2] :
           /\ ScaledDown(frame.extent, resolution_scale(ray_tracing_options_), <<rx, ry>>)
           /\ Covers(GridOf(b), <<rx, ry>>)
\* A frame whose denoise grid has one tile more than a multiple of 512 in
\* each of its two rows, so its lists take three times 512 entries, and whose
\* tracing lists fit in 512 entries.
C21_Witness ==
  /\ InFrame
  /\ GridOf("raytrace_denoise_tiles_buf_") = <<513, 2>>
  /\ \E i \in Resizes :
       log[i].name = "raytrace_denoise_tiles_buf_" /\ log[i].binds.size = 1536
  /\ \E i \in Resizes :
       log[i].name = "raytrace_tracing_tiles_buf_" /\ log[i].binds.size = 512
  /\ resolution_scale(ray_tracing_options_) = 4

(***************************************************************************)
(* C22.  For every resolution-scale input r >= 0 the effective scale is    *)
(* the least power of two that is >= 1 and >= r, the tracing resolution is *)
(* the component-wise ceiling division of the extent by that scale, and    *)
(* render() and trace() compute the same scale and tracing resolution: the *)
(* textures trace() acquires at tracing resolution have the extent of the  *)
(* ones render() acquired, and the tracing tile mask render() sized covers *)
(* them.                                                                   *)
(***************************************************************************)
IsPowerOfTwo(n) == \E k \in 0..n : n = 2 ^ k
TracingResFields == RayFields \cup {"horizon_occlusion_tx_", "horizon_radiance_tx_"}
TracingResAcquired ==
  {i \in DOMAIN CallLog : CallLog[i].op = "acquire" /\ CallLog[i].name \in TracingResFields}
C22_ResolutionScale ==
  \A c \in Closures :
    (JustTraced(c) /\ flags[c].active) =>
      /\ resolution_scale(ray_tracing_options_) = render_resolution_scale(ray_tracing_options_)
      /\ IsPowerOfTwo(resolution_scale(ray_tracing_options_))
      /\ resolution_scale(ray_tracing_options_) >= ray_tracing_options_.resolution_scale
      /\ \/ resolution_scale(ray_tracing_options_) = 1
         \/ resolution_scale(ray_tracing_options_) \div 2 < ray_tracing_options_.resolution_scale
      /\ TracingResAcquired # {}
      /\ \A i \in TracingResAcquired :
           /\ ScaledDown(frame.extent, resolution_scale(ray_tracing_options_), CallLog[i].tx.extent)
           /\ frame.use_horizon_scan =>
                CallLog[i].tx.extent = tex[Mod("downsampled_in_radiance_tx_")].extent
           /\ Covers(tex[Mod("tile_raytrace_tracing_tx_")].extent, CallLog[i].tx.extent)
\* A call under scale input 3 (effective scale 4) on an extent that the scale
\* does not divide.
C22_Witness ==
  /\ JustTraced("diffuse") /\ flags["diffuse"].active /\ frame.use_horizon_scan
  /\ ray_tracing_options_.resolution_scale = 3
  /\ frame.extent = <<512 * RAYTRACE_GROUP_SIZE + 1, RAYTRACE_GROUP_SIZE + 1>>
  /\ \E i \in TracingResAcquired : CallLog[i].tx.extent = <<1025, 3>>

(***************************************************************************)
(* C23.  A trace() call for closure kind K reads and modifies only K's     *)
(* persistent denoise buffer: the history textures, the valid_history flag *)
(* and the stored view-projection matrix of the other two kinds are        *)
(* unchanged by the call, and no pass of the call binds a texture of       *)
(* theirs, on the active and on the inactive path.                         *)
(***************************************************************************)
\* The textures the denoise buffers of the kinds other than k hold.
OthersTextures(k) ==
  {tex[Slot(o, f)].id : o \in Closures \ {k}, f \in BufFields} \ {0}
\* The texture ids the passes of the call that just returned bound.
CallBound ==
  UNION {{log[j].binds[b] : b \in DOMAIN log[j].binds} :
           j \in {i \in (call_begin + 1)..Len(log) : log[i].op = "submit"}}
C23_OnlyOwnDenoiseBuffer ==
  [][\A c \in Closures :
       pc = c =>
         \A o \in Closures \ {denoise_buf(RenderCall(c))} :
           /\ valid_history'[o] = valid_history[o]
           /\ history_persmat'[o] = history_persmat[o]
           /\ \A h \in HistoryFields : tex'[Slot(o, h)] = tex[Slot(o, h)]
           /\ CallBound' \cap OthersTextures(denoise_buf(RenderCall(c))) = {}
           /\ \A i \in (call_begin' + 1)..Len(log') :
                log'[i].owner \in {"module", denoise_buf(RenderCall(c))}]_vars
\* An inactive call, and a call that ran the temporal stage, each made while
\* another kind holds a valid history.
C23_Witness ==
  \E c \in {"reflection", "refraction"} :
    /\ JustTraced(c)
    /\ valid_history["diffuse"] /\ tex[Slot("diffuse", "radiance_history_tx")].id # 0
    /\ \/ ~flags[c].active /\ \E i \in DOMAIN CallLog : CallLog[i].op = "free"
       \/ flags[c].active /\ flags[c].use_temporal_denoise

(***************************************************************************)
(* C24.  The history view-projection matrix the temporal pass of a frame   *)
(* is given is the main-view matrix saved by the most recent earlier frame *)
(* that ran the temporal stage for the closure: a call that runs the       *)
(* temporal stage pushes the stored matrix to the uniform data before it   *)
(* submits the temporal pass, with no other push in between, and stores    *)
(* the current main-view matrix after; a call that does not run the        *)
(* temporal stage, and every other step, leaves the stored matrix as it    *)
(* is.                                                                     *)
(***************************************************************************)
\* In log l from position b on: the stored matrix p is pushed for closure c,
\* then the temporal pass of c is submitted, with no push in between.
PushedThenTemporal(l, b, c, p) ==
  \E t \in (b + 1)..Len(l) :
    /\ IsSubmit(l[t], c, "denoise_temporal_ps_")
    /\ \E u \in (b + 1)..(t - 1) :
         /\ IsOn(l[u], "push_update", c, "uniform_data")
         /\ l[u].binds.history_persmat = p
         /\ \A v \in (u + 1)..(t - 1) : l[v].op # "push_update"
C24_HistoryMatrix ==
  [][/\ \A c \in Closures :
          pc = c =>
            IF c \in frame.active_closures /\ use_temporal_denoise(ray_tracing_options_)
              THEN /\ PushedThenTemporal(log', call_begin', c, history_persmat[c])
                   /\ history_persmat'[c] = frame.main_persmat
              ELSE /\ history_persmat'[c] = history_persmat[c]
                   /\ \A t \in (call_begin' + 1)..Len(log') :
                        ~IsSubmit(log'[t], c, "denoise_temporal_ps_")
     /\ pc \notin Closures => history_persmat' = history_persmat]_vars
\* A temporal pass that was given the matrix of view 1, saved before the
\* previous frame, which did not run the temporal stage, under view 2.
C24_Witness ==
  \E c \in Closures :
    /\ JustTraced(c) /\ flags[c].active /\ flags[c].use_temporal_denoise
    /\ prev[c] = "plain"
    /\ PushedThenTemporal(log, call_begin, c, 1)
    /\ frame.main_persmat = 2 /\ history_persmat[c] = 2

(***************************************************************************)
(* C25.  Every indirectly dispatched pass of a closure (generate, trace,   *)
(* the denoise passes, horizon scan and horizon denoise) follows a         *)
(* compaction submitted for the same closure in the same frame, with no    *)
(* other compaction and no reset of a dispatch record in between; before   *)
(* each compaction, and after the one before it, all four dispatch records *)
(* are reset to zero and the closure's index is pushed to the uniform      *)
(* data.                                                                   *)
(***************************************************************************)
DispatchBufs == {"raytrace_tracing_dispatch_buf_", "raytrace_denoise_dispatch_buf_",
                 "horizon_tracing_dispatch_buf_", "horizon_denoise_dispatch_buf_"}
IndirectPasses == {"generate_ray_ps", "trace_ray_ps", "trace_fallback_ps_", "denoise_spatial_ps",
                   "denoise_temporal_ps_", "denoise_bilateral_ps", "horizon_scan_ps",
                   "horizon_denoise_ps_"}
IsCompact(e) == e.op = "submit" /\ e.name = "tile_compact_ps_"
\* Position z lies after every compaction submitted before position k.
SinceLastCompact(z, k) == z < k /\ \A v \in z..(k - 1) : ~IsCompact(log[v])
\* The compaction at position k started from zeroed dispatch records and from
\* the index of closure c in the uniform data.
FreshCompact(k, c) ==
  /\ IsSubmit(log[k], c, "tile_compact_ps_")
  /\ \A buf \in DispatchBufs :
       \E z \in 1..(k - 1) : IsOn(log[z], "clear_to_zero", "module", buf) /\ SinceLastCompact(z, k)
  /\ \E u \in 1..(k - 1) :
       /\ IsOn(log[u], "push_update", c, "uniform_data")
       /\ log[u].binds.closure_index = closure_index(c)
       /\ SinceLastCompact(u, k)
       /\ \A v \in (u + 1)..(k - 1) : log[v].op # "push_update"
C25_DispatchFromOwnCompaction ==
  \A j \in (call_begin + 1)..Len(log) :
    /\ (log[j].op = "submit" /\ log[j].name \in IndirectPasses) =>
         \E k \in 1..(j - 1) :
           /\ FreshCompact(k, log[j].owner)
           /\ \A v \in (k + 1)..(j - 1) : ~IsCompact(log[v]) /\ log[v].op # "clear_to_zero"
    /\ IsCompact(log[j]) => FreshCompact(j, log[j].owner)
\* The reflection call of a frame in which the diffuse closure was traced
\* before it: its passes, the horizon passes among them, follow its own
\* compaction.
C25_Witness ==
  /\ JustTraced("reflection") /\ flags["reflection"].active /\ flags["diffuse"].active
  /\ Cardinality({i \in DOMAIN log : IsCompact(log[i])}) = 2
  /\ \E j \in DOMAIN CallLog : IsSubmit(CallLog[j], "reflection", "horizon_denoise_ps_")
  /\ \E j \in DOMAIN CallLog : IsSubmit(CallLog[j], "reflection", "denoise_bilateral_ps")

(***************************************************************************)
(* C26.  The horizon chain runs in the order horizon setup, classify,      *)
(* compact, scan, denoise, and only where enabled: horizon setup is        *)
(* submitted at most once per frame, and only if the max-roughness         *)
(* threshold is below 1 and the active set is neither empty nor exactly    *)
(* {Refraction}; horizon scan and horizon denoise are submitted for a      *)
(* closure only if horizon setup ran in the frame and the closure is       *)
(* active and is not Refraction, after the closure's compaction and after  *)
(* every pass of its ray-trace denoise chain.                              *)
(***************************************************************************)
SetupSubmits == {i \in Submits : log[i].name = "horizon_setup_ps_"}
DenoiseChain == {"denoise_spatial_ps", "denoise_temporal_ps_", "denoise_bilateral_ps"}
\* Setup, then classify, then the closure's compaction, all before position j.
HorizonPrefix(c, j) ==
  \E s \in SetupSubmits :
    \E y \in (s + 1)..(j - 1) :
      /\ IsSubmit(log[y], "module", "tile_classify_ps_")
      /\ \E k \in (y + 1)..(j - 1) : IsSubmit(log[k], c, "tile_compact_ps_")
C26_HorizonChain ==
  /\ Cardinality(SetupSubmits) <= 1
  /\ SetupSubmits # {} =>
       /\ ray_tracing_options_.screen_trace_max_roughness < 10
       /\ frame.active_closures \notin {CLOSURE_NONE, {"refraction"}}
  /\ \A c \in Closures : \A j \in HorizonSubmits(c) :
       /\ c \in frame.active_closures /\ c # "refraction"
       /\ HorizonPrefix(c, j)
       /\ IF log[j].name = "horizon_scan_ps"
            THEN j < Len(log) /\ IsSubmit(log[j + 1], c, "horizon_denoise_ps_")
            ELSE IsSubmit(log[j - 1], c, "horizon_scan_ps")
       /\ \E d \in 1..(j - 1) : IsSubmit(log[d], c, "denoise_spatial_ps")
       /\ \A d \in Submits : (log[d].owner = c /\ log[d].name \in DenoiseChain) => d < j
\* A frame with reflection and refraction active and every denoise stage on:
\* the horizon passes ran for reflection, after its bilateral pass, and not
\* for refraction.
C26_Witness ==
  /\ pc = "finish" /\ frame.active_closures = {"reflection", "refraction"}
  /\ flags["reflection"].use_bilateral_denoise
  /\ Cardinality(SetupSubmits) = 1
  /\ Cardinality(HorizonSubmits("reflection")) = 2
  /\ HorizonSubmits("refraction") = {} /\ HorizonSubmits("diffuse") = {}

(***************************************************************************)
(* C27.  At every pass submission in render() and trace(), every pool      *)
(* texture the pass binds (ray buffers, hit variance and depth, denoise    *)
(* variance, the denoised outputs, the horizon and downsampled textures)   *)
(* is acquired and not yet released; no pool texture handle is acquired    *)
(* twice without a release in between, and none is held when a frame       *)
(* starts.                                                                 *)
(***************************************************************************)
\* Bindings of persistent or external textures: the tile masks, the history
\* textures, the screen radiance given to render().
PersistentBindings ==
  {"tile_mask_img", "tile_raytrace_denoise_img", "tile_raytrace_tracing_img",
   "tile_horizon_denoise_img", "tile_horizon_tracing_img", "radiance_history_tx",
   "variance_history_tx", "tilemask_history_tx", "in_radiance_tx"}
TransientBinding(pass, b) ==
  /\ b \notin PersistentBindings
  /\ ~(pass \in TracePasses /\ b = "screen_radiance_tx")
\* The texture with this id was acquired before position j and not released
\* since.
HeldAt(j, id) ==
  /\ id # 0
  /\ \E a \in 1..(j - 1) :
       /\ log[a].op = "acquire" /\ log[a].tx.id = id
       /\ \A r \in (a + 1)..(j - 1) : ~(log[r].op = "release" /\ log[r].tx.id = id)
PoolSlots == ({"module"} \X PoolFields) \cup (Closures \X DenoisedFields)
Acquires == {i \in DOMAIN log : log[i].op = "acquire"}
C27_BoundTexturesAreHeld ==
  /\ \A j \in (call_begin + 1)..Len(log) :
       log[j].op = "submit" =>
         \A b \in DOMAIN log[j].binds :
           TransientBinding(log[j].name, b) => HeldAt(j, log[j].binds[b])
  /\ \A a \in Acquires : \A a2 \in Acquires :
       (a < a2 /\ log[a].owner = log[a2].owner /\ log[a].name = log[a2].name) =>
         \E r \in (a + 1)..(a2 - 1) : IsOn(log[r], "release", log[a].owner, log[a].name)
  /\ pc \in {"idle", "render"} => \A s \in PoolSlots : tex[s] = NoTex
\* A call that ran every stage and the horizon scan in a frame in which an
\* earlier call acquired and released the same handles.
C27_Witness ==
  /\ JustTraced("reflection") /\ flags["reflection"].use_bilateral_denoise
  /\ flags["diffuse"].active
  /\ HorizonSubmits("reflection") # {}
  /\ Cardinality({a \in Acquires : log[a].name = "denoise_variance_tx_"}) = 2

====
